---- MODULE Spec2Model ----
(***************************************************************************)
(* Model of the SPDX license expression parser (src/src/parser.rs) and of  *)
(* the postfix evaluator (src/src/expression.rs).                          *)
(*                                                                         *)
(* The token stream is an input: every step of the parser's `for tok in    *)
(* lexer` loop draws the next token from the lexer, so a behaviour of the  *)
(* model is one call of Expression::parse on one token sequence, followed  *)
(* by one traversal of the produced Expression by evaluate and             *)
(* evaluate_with_failures with one caller-supplied predicate.              *)
(***************************************************************************)
EXTENDS Integers, Sequences, FiniteSets, TLC

\* ------------------------------------------------------------------ bounds
\* longest token sequence the lexer hands to one call of parse
MaxToks == 7
\* most trailing whitespace after the last token of the text
MaxTrail == 1

\* ------------------------------------------------------- lexer (collaborator)
SpdxIds == {"MIT", "0BSD"}
LicRefs == {"LicenseRef-x"}
ExceptionIds == {"LLVM-exception"}

\* byte length of the text of a token
TokLen(kind, val) ==
    CASE kind = "SPDX" /\ val = "MIT" -> 3
      [] kind = "SPDX" /\ val = "0BSD" -> 4
      [] kind = "LicenseRef" -> 12
      [] kind = "Exception" -> 14
      [] kind = "With" -> 4
      [] kind = "And" -> 3
      [] kind = "Or" -> 2
      [] OTHER -> 1

VARIABLES
    toks,        \* the tokens the lexer has yielded so far, with their spans
    text_len,    \* original.len(), known to the model once the stream ends
    op_stack,    \* parse: op_stack
    expr_queue,  \* parse: expr_queue
    last_token,  \* parse: last_token
    pc,          \* "parsing", "parsed" (Ok), "failed" (Err), "panic", "evaluating"
    err,         \* the ParseError returned when pc = "failed"
    allow,       \* the answers of the predicate, one per invocation
    eval_result, \* what evaluate returned
    ewf_result   \* what evaluate_with_failures returned

vars == <<toks, text_len, op_stack, expr_queue, last_token, pc, err,
          allow, eval_result, ewf_result>>

\* the byte offset at which the next token starts: tokens are laid out in
\* source order, one separator apart
Cursor == IF toks = <<>> THEN 0 ELSE toks[Len(toks)].end + 1

\* the LexedToken the lexer yields next for a token of this kind
Lex(kind, val) ==
    [kind |-> kind, val |-> val, start |-> Cursor,
     end |-> Cursor + TokLen(kind, val)]

\* ----------------------------------------------------------------- values
\* Option<Token>: None, or the token without its span
NoToken == [kind |-> "None", val |-> ""]
SomeToken(lt) == [kind |-> lt.kind, val |-> lt.val]

NoLicense == [kind |-> "None", id |-> "", or_later |-> FALSE]

\* ExprNode::Op(op)
OpNode(op) ==
    [type |-> "Op", op |-> op, license |-> NoLicense, exception |-> "",
     start |-> 0, end |-> 0]

\* ExprNode::Req(ExpressionReq { req: LicenseReq { license, exception: None }, span })
ReqNode(lt) ==
    [type |-> "Req", op |-> "",
     license |-> [kind |-> IF lt.kind = "SPDX" THEN "SPDX" ELSE "Other",
                  id |-> lt.val, or_later |-> FALSE],
     exception |-> "", start |-> lt.start, end |-> lt.end]

\* the node a reached unreachable!() leaves behind
UnreachableNode ==
    [type |-> "Unreachable", op |-> "", license |-> NoLicense,
     exception |-> "", start |-> 0, end |-> 0]

NoErr == [reason |-> "None", start |-> 0, end |-> 0, expected |-> <<>>]

\* ------------------------------------------------------------------ parser
\* derived Ord of enum Op: And < Or < Open
OpOrd(op) == CASE op = "And" -> 0 [] op = "Or" -> 1 [] OTHER -> 2

apply_op(op, q) ==
    CASE op.op = "And" -> Append(q, OpNode("And"))
      [] op.op = "Or" -> Append(q, OpNode("Or"))
      [] OTHER -> Append(q, UnreachableNode)

make_err_for_token(last, start, end) ==
    [reason |-> "Unexpected", start |-> start, end |-> end,
     expected |->
        CASE last.kind \in {"None", "And", "Or", "OpenParen"} -> <<"<license>", "(">>
          [] last.kind = "CloseParen" -> <<"AND", "OR">>
          [] last.kind = "Exception" -> <<"AND", "OR", ")">>
          [] last.kind = "SPDX" -> <<"AND", "OR", "WITH", ")", "+">>
          [] last.kind \in {"LicenseRef", "Plus"} -> <<"AND", "OR", "WITH", ")">>
          [] last.kind = "With" -> <<"<exception>">>]

\* the '+' arm taking a '+' after a license-ref too
Accepts_PlusAfterLicenseRef(kind, last) ==
    CASE kind \in {"SPDX", "LicenseRef", "OpenParen"} ->
            last.kind \in {"None", "And", "Or", "OpenParen"}
      [] kind = "Plus" -> last.kind \in {"SPDX", "LicenseRef"}
      [] kind = "With" -> last.kind \in {"SPDX", "LicenseRef", "Plus"}
      [] kind \in {"Or", "And"} ->
            last.kind \in {"SPDX", "LicenseRef", "CloseParen", "Exception", "Plus"}
      [] kind = "CloseParen" ->
            last.kind \in {"SPDX", "LicenseRef", "Plus", "Exception", "CloseParen"}
      [] kind = "Exception" -> last.kind = "With"

\* the WITH arm taking a WITH after a ')' too
Accepts_WithAfterCloseParen(kind, last) ==
    CASE kind \in {"SPDX", "LicenseRef", "OpenParen"} ->
            last.kind \in {"None", "And", "Or", "OpenParen"}
      [] kind = "Plus" -> last.kind = "SPDX"
      [] kind = "With" ->
            last.kind \in {"SPDX", "LicenseRef", "Plus", "CloseParen"}
      [] kind \in {"Or", "And"} ->
            last.kind \in {"SPDX", "LicenseRef", "CloseParen", "Exception", "Plus"}
      [] kind = "CloseParen" ->
            last.kind \in {"SPDX", "LicenseRef", "Plus", "Exception", "CloseParen"}
      [] kind = "Exception" -> last.kind = "With"

\* the ')' arm refusing a ')' directly after a ')'
Accepts_NoNestedClose(kind, last) ==
    CASE kind \in {"SPDX", "LicenseRef", "OpenParen"} ->
            last.kind \in {"None", "And", "Or", "OpenParen"}
      [] kind = "Plus" -> last.kind = "SPDX"
      [] kind = "With" -> last.kind \in {"SPDX", "LicenseRef", "Plus"}
      [] kind \in {"Or", "And"} ->
            last.kind \in {"SPDX", "LicenseRef", "CloseParen", "Exception", "Plus"}
      [] kind = "CloseParen" ->
            last.kind \in {"SPDX", "LicenseRef", "Plus", "Exception"}
      [] kind = "Exception" -> last.kind = "With"

\* the match on last_token in the arm of each token kind: TRUE when the arm
\* handles the token, FALSE when it returns make_err_for_token
Accepts(kind, last) ==
    CASE kind \in {"SPDX", "LicenseRef", "OpenParen"} ->
            last.kind \in {"None", "And", "Or", "OpenParen"}
      [] kind = "Plus" -> last.kind = "SPDX"
      [] kind = "With" -> last.kind \in {"SPDX", "LicenseRef", "Plus"}
      [] kind \in {"Or", "And"} ->
            last.kind \in {"SPDX", "LicenseRef", "CloseParen", "Exception", "Plus"}
      [] kind = "CloseParen" ->
            last.kind \in {"SPDX", "LicenseRef", "Plus", "Exception", "CloseParen"}
      [] kind = "Exception" -> last.kind = "With"

Pop(s) == SubSeq(s, 1, Len(s) - 1)
Top(s) == s[Len(s)]

\* the Or | And arm with the comparison reversed: it pops the operators of
\* lower precedence than the new one
RECURSIVE PopBeforePush_PopsLower(_, _, _)
PopBeforePush_PopsLower(stack, queue, new_op) ==
    IF stack = <<>> THEN [stack |-> stack, queue |-> queue]
    ELSE IF Top(stack).op = "Open" THEN [stack |-> stack, queue |-> queue]
    ELSE IF OpOrd(Top(stack).op) > OpOrd(new_op)
         THEN PopBeforePush_PopsLower(Pop(stack), apply_op(Top(stack), queue),
                                      new_op)
         ELSE [stack |-> stack, queue |-> queue]

\* the Or | And arm pushing the new operator without popping any operator
PopBeforePush_NeverPops(stack, queue, new_op) ==
    [stack |-> stack, queue |-> queue]

\* while let Some(op) = op_stack.last() { ... } of the Or | And arm
RECURSIVE PopBeforePush(_, _, _)
PopBeforePush(stack, queue, new_op) ==
    IF stack = <<>> THEN [stack |-> stack, queue |-> queue]
    ELSE IF Top(stack).op = "Open" THEN [stack |-> stack, queue |-> queue]
    ELSE IF OpOrd(Top(stack).op) < OpOrd(new_op)
         THEN PopBeforePush(Pop(stack), apply_op(Top(stack), queue), new_op)
         ELSE [stack |-> stack, queue |-> queue]

\* the CloseParen loop leaving the marker it found on the stack
RECURSIVE PopToOpen_KeepsMarker(_, _)
PopToOpen_KeepsMarker(stack, queue) ==
    IF stack = <<>> THEN [found |-> FALSE, stack |-> stack, queue |-> queue]
    ELSE IF Top(stack).op = "Open"
         THEN [found |-> TRUE, stack |-> stack, queue |-> queue]
         ELSE PopToOpen_KeepsMarker(Pop(stack), apply_op(Top(stack), queue))

\* the CloseParen loop dropping the operators it pops instead of emitting them
RECURSIVE PopToOpen_DropsOperators(_, _)
PopToOpen_DropsOperators(stack, queue) ==
    IF stack = <<>> THEN [found |-> FALSE, stack |-> stack, queue |-> queue]
    ELSE IF Top(stack).op = "Open"
         THEN [found |-> TRUE, stack |-> Pop(stack), queue |-> queue]
         ELSE PopToOpen_DropsOperators(Pop(stack), queue)

\* while let Some(top) = op_stack.pop() { ... } of the CloseParen arm
RECURSIVE PopToOpen(_, _)
PopToOpen(stack, queue) ==
    IF stack = <<>> THEN [found |-> FALSE, stack |-> stack, queue |-> queue]
    ELSE IF Top(stack).op = "Open"
         THEN [found |-> TRUE, stack |-> Pop(stack), queue |-> queue]
         ELSE PopToOpen(Pop(stack), apply_op(Top(stack), queue))

\* the final drain reporting the first '(' that was opened rather than the
\* first marker it pops
RECURSIVE Drain_BottomMarker(_, _)
Drain_BottomMarker(stack, queue) ==
    IF stack = <<>> THEN [unclosed |-> FALSE, stack |-> stack, queue |-> queue,
                          start |-> 0, end |-> 0]
    ELSE IF Top(stack).op = "Open"
         THEN LET below == Drain_BottomMarker(Pop(stack), queue)
              IN IF below.unclosed THEN below
                 ELSE [unclosed |-> TRUE, stack |-> Pop(stack), queue |-> queue,
                       start |-> Top(stack).start, end |-> Top(stack).end]
         ELSE Drain_BottomMarker(Pop(stack), apply_op(Top(stack), queue))

\* the final while let Some(top) = op_stack.pop() { ... }
RECURSIVE Drain(_, _)
Drain(stack, queue) ==
    IF stack = <<>> THEN [unclosed |-> FALSE, stack |-> stack, queue |-> queue,
                          start |-> 0, end |-> 0]
    ELSE IF Top(stack).op = "Open"
         THEN [unclosed |-> TRUE, stack |-> Pop(stack), queue |-> queue,
               start |-> Top(stack).start, end |-> Top(stack).end]
         ELSE Drain(Pop(stack), apply_op(Top(stack), queue))

\* --------------------------------------------------------------- evaluator
\* the result of a traversal that has not been made
NotCalled ==
    [done |-> FALSE, panic |-> FALSE, value |-> FALSE, failures |-> <<>>,
     calls |-> <<>>]

\* requirements without the filter on the node type
requirements_AllNodes(expr) == [i \in 1..Len(expr) |-> i]

\* Expression::requirements: the indices of the requirement nodes of expr, in
\* iteration order
RECURSIVE requirements(_)
requirements(expr) ==
    IF expr = <<>> THEN <<>>
    ELSE LET rest == requirements(Pop(expr))
         IN IF Top(expr).type = "Req" THEN Append(rest, Len(expr)) ELSE rest

\* the evaluate loop short-circuiting: a requirement that follows a true
\* value is taken as allowed without asking the predicate
RECURSIVE evaluate_loop_ShortCircuits(_, _, _, _, _)
evaluate_loop_ShortCircuits(expr, fn, i, result_stack, calls) ==
    IF i > Len(expr)
    THEN [panic |-> FALSE, result_stack |-> result_stack, calls |-> calls]
    ELSE IF expr[i].type = "Req" /\ result_stack # <<>> /\ Top(result_stack)
    THEN evaluate_loop_ShortCircuits(expr, fn, i + 1,
             Append(result_stack, TRUE), calls)
    ELSE IF expr[i].type = "Req"
    THEN LET allowed == fn[Len(calls) + 1]
         IN evaluate_loop_ShortCircuits(expr, fn, i + 1,
                Append(result_stack, allowed), Append(calls, i))
    ELSE IF Len(result_stack) < 2
    THEN [panic |-> TRUE, result_stack |-> result_stack, calls |-> calls]
    ELSE LET a == Top(result_stack)
             b == Top(Pop(result_stack))
         IN evaluate_loop_ShortCircuits(expr, fn, i + 1,
                Append(Pop(Pop(result_stack)),
                       IF expr[i].op = "Or" THEN a \/ b ELSE a /\ b),
                calls)

\* the evaluate loop with the Or arm pushing a ^ b
RECURSIVE evaluate_loop_XorForOr(_, _, _, _, _)
evaluate_loop_XorForOr(expr, fn, i, result_stack, calls) ==
    IF i > Len(expr)
    THEN [panic |-> FALSE, result_stack |-> result_stack, calls |-> calls]
    ELSE IF expr[i].type = "Req"
    THEN LET allowed == fn[Len(calls) + 1]
         IN evaluate_loop_XorForOr(expr, fn, i + 1,
                Append(result_stack, allowed), Append(calls, i))
    ELSE IF Len(result_stack) < 2
    THEN [panic |-> TRUE, result_stack |-> result_stack, calls |-> calls]
    ELSE LET a == Top(result_stack)
             b == Top(Pop(result_stack))
         IN evaluate_loop_XorForOr(expr, fn, i + 1,
                Append(Pop(Pop(result_stack)),
                       IF expr[i].op = "Or" THEN a # b ELSE a /\ b),
                calls)

\* the for loop of evaluate from node i on; fn is the sequence of answers
\* allow_func gives, one per invocation; calls are the nodes it was invoked on
RECURSIVE evaluate_loop(_, _, _, _, _)
evaluate_loop(expr, fn, i, result_stack, calls) ==
    IF i > Len(expr)
    THEN [panic |-> FALSE, result_stack |-> result_stack, calls |-> calls]
    ELSE IF expr[i].type = "Req"
    THEN LET allowed == fn[Len(calls) + 1]
         IN evaluate_loop(expr, fn, i + 1, Append(result_stack, allowed),
                          Append(calls, i))
    ELSE IF Len(result_stack) < 2
    THEN [panic |-> TRUE, result_stack |-> result_stack, calls |-> calls]
    ELSE LET a == Top(result_stack)
             b == Top(Pop(result_stack))
         IN evaluate_loop(expr, fn, i + 1,
                Append(Pop(Pop(result_stack)),
                       IF expr[i].op = "Or" THEN a \/ b ELSE a /\ b),
                calls)

evaluate(expr, fn) ==
    LET r == evaluate_loop(expr, fn, 1, <<>>, <<>>)
    IN IF r.panic \/ r.result_stack = <<>>
       THEN [done |-> TRUE, panic |-> TRUE, value |-> FALSE,
             failures |-> <<>>, calls |-> r.calls]
       ELSE [done |-> TRUE, panic |-> FALSE, value |-> Top(r.result_stack),
             failures |-> <<>>, calls |-> r.calls]

\* the evaluate_with_failures loop recording a requirement when the predicate
\* allowed it
RECURSIVE evaluate_with_failures_loop_RecordsAllowed(_, _, _, _, _, _)
evaluate_with_failures_loop_RecordsAllowed(expr, fn, i, result_stack, failures, calls) ==
    IF i > Len(expr)
    THEN [panic |-> FALSE, result_stack |-> result_stack,
          failures |-> failures, calls |-> calls]
    ELSE IF expr[i].type = "Req"
    THEN LET allowed == fn[Len(calls) + 1]
         IN evaluate_with_failures_loop_RecordsAllowed(expr, fn, i + 1,
                Append(result_stack, allowed),
                IF allowed THEN Append(failures, i) ELSE failures,
                Append(calls, i))
    ELSE IF Len(result_stack) < 2
    THEN [panic |-> TRUE, result_stack |-> result_stack,
          failures |-> failures, calls |-> calls]
    ELSE LET a == Top(result_stack)
             b == Top(Pop(result_stack))
         IN evaluate_with_failures_loop_RecordsAllowed(expr, fn, i + 1,
                Append(Pop(Pop(result_stack)),
                       IF expr[i].op = "Or" THEN a \/ b ELSE a /\ b),
                failures, calls)

\* the for loop of evaluate_with_failures from node i on; failures are
\* references to requirement nodes (their indices in expr)
RECURSIVE evaluate_with_failures_loop(_, _, _, _, _, _)
evaluate_with_failures_loop(expr, fn, i, result_stack, failures, calls) ==
    IF i > Len(expr)
    THEN [panic |-> FALSE, result_stack |-> result_stack,
          failures |-> failures, calls |-> calls]
    ELSE IF expr[i].type = "Req"
    THEN LET allowed == fn[Len(calls) + 1]
         IN evaluate_with_failures_loop(expr, fn, i + 1,
                Append(result_stack, allowed),
                IF ~allowed THEN Append(failures, i) ELSE failures,
                Append(calls, i))
    ELSE IF Len(result_stack) < 2
    THEN [panic |-> TRUE, result_stack |-> result_stack,
          failures |-> failures, calls |-> calls]
    ELSE LET a == Top(result_stack)
             b == Top(Pop(result_stack))
         IN evaluate_with_failures_loop(expr, fn, i + 1,
                Append(Pop(Pop(result_stack)),
                       IF expr[i].op = "Or" THEN a \/ b ELSE a /\ b),
                failures, calls)

\* evaluate_with_failures deciding between Ok and Err by whether a failure
\* was recorded instead of by the result
evaluate_with_failures_ErrOnAnyFailure(expr, fn) ==
    LET r == evaluate_with_failures_loop(expr, fn, 1, <<>>, <<>>, <<>>)
    IN IF r.panic
       THEN [done |-> TRUE, panic |-> TRUE, value |-> FALSE,
             failures |-> <<>>, calls |-> r.calls]
       ELSE IF r.failures # <<>>
       THEN [done |-> TRUE, panic |-> FALSE, value |-> FALSE,
             failures |-> r.failures, calls |-> r.calls]
       ELSE [done |-> TRUE, panic |-> FALSE, value |-> TRUE,
             failures |-> <<>>, calls |-> r.calls]

\* value TRUE is Ok(()), value FALSE is Err(failures)
evaluate_with_failures(expr, fn) ==
    LET r == evaluate_with_failures_loop(expr, fn, 1, <<>>, <<>>, <<>>)
    IN IF r.panic
       THEN [done |-> TRUE, panic |-> TRUE, value |-> FALSE,
             failures |-> <<>>, calls |-> r.calls]
       ELSE IF r.result_stack # <<>> /\ Top(r.result_stack) = FALSE
       THEN [done |-> TRUE, panic |-> FALSE, value |-> FALSE,
             failures |-> r.failures, calls |-> r.calls]
       ELSE [done |-> TRUE, panic |-> FALSE, value |-> TRUE,
             failures |-> <<>>, calls |-> r.calls]

Init ==
    /\ toks = <<>>
    /\ text_len = 0
    /\ op_stack = <<>>
    /\ expr_queue = <<>>
    /\ last_token = NoToken
    /\ pc = "parsing"
    /\ err = NoErr
    /\ allow = <<>>
    /\ eval_result = NotCalled
    /\ ewf_result = NotCalled

NoEval == UNCHANGED <<allow, eval_result, ewf_result>>

\* the lexer yields one more token
Yield(lt) ==
    /\ pc = "parsing"
    /\ Len(toks) < MaxToks
    /\ toks' = Append(toks, lt)
    /\ text_len' = lt.end
    /\ NoEval

\* the error recorded without leaving the token loop
Return_KeepsParsing(e, stack, queue) ==
    /\ pc' = "parsing"
    /\ err' = e
    /\ op_stack' = stack
    /\ expr_queue' = queue
    /\ UNCHANGED last_token

\* return Err(e) out of the token loop
Return(e, stack, queue) ==
    /\ pc' = "failed"
    /\ err' = e
    /\ op_stack' = stack
    /\ expr_queue' = queue
    /\ UNCHANGED last_token

\* fall through to last_token = Some(lt.token) at the end of the loop body
Continue(lt, stack, queue) ==
    /\ pc' = "parsing"
    /\ last_token' = SomeToken(lt)
    /\ op_stack' = stack
    /\ expr_queue' = queue
    /\ UNCHANGED err

Panic ==
    /\ pc' = "panic"
    /\ UNCHANGED <<op_stack, expr_queue, last_token, err>>

\* Token::SPDX(id) and Token::LicenseRef { doc_ref, lic_ref }
Atom(lt) ==
    /\ Yield(lt)
    /\ IF Accepts(lt.kind, last_token)
       THEN Continue(lt, op_stack, Append(expr_queue, ReqNode(lt)))
       ELSE Return(make_err_for_token(last_token, lt.start, lt.end),
                   op_stack, expr_queue)

TokenSPDX == \E id \in SpdxIds : Atom(Lex("SPDX", id))

TokenLicenseRef == \E r \in LicRefs : Atom(Lex("LicenseRef", r))

TokenPlus ==
    LET lt == Lex("Plus", "")
        n == Len(expr_queue)
    IN /\ Yield(lt)
       /\ IF Accepts("Plus", last_token)
          THEN IF n = 0 \/ expr_queue[n].type # "Req"
                     \/ expr_queue[n].license.kind # "SPDX"
               THEN Panic
               ELSE Continue(lt, op_stack,
                        [expr_queue EXCEPT ![n].license.or_later = TRUE])
          ELSE Return(make_err_for_token(last_token, lt.start, lt.end),
                      op_stack, expr_queue)

TokenWith ==
    LET lt == Lex("With", "")
    IN /\ Yield(lt)
       /\ IF Accepts("With", last_token)
          THEN Continue(lt, op_stack, expr_queue)
          ELSE Return(make_err_for_token(last_token, lt.start, lt.end),
                      op_stack, expr_queue)

\* Token::Or | Token::And
Operator(lt) ==
    LET p == PopBeforePush(op_stack, expr_queue, lt.kind)
    IN /\ Yield(lt)
       /\ IF Accepts(lt.kind, last_token)
          THEN Continue(lt,
                        Append(p.stack, [op |-> lt.kind, start |-> lt.start,
                                         end |-> lt.end]),
                        p.queue)
          ELSE Return(make_err_for_token(last_token, lt.start, lt.end),
                      op_stack, expr_queue)

TokenOr == Operator(Lex("Or", ""))

TokenAnd == Operator(Lex("And", ""))

TokenOpenParen ==
    LET lt == Lex("OpenParen", "")
    IN /\ Yield(lt)
       /\ IF Accepts("OpenParen", last_token)
          THEN Continue(lt,
                        Append(op_stack, [op |-> "Open", start |-> lt.start,
                                          end |-> lt.end]),
                        expr_queue)
          ELSE Return(make_err_for_token(last_token, lt.start, lt.end),
                      op_stack, expr_queue)

TokenCloseParen ==
    LET lt == Lex("CloseParen", "")
        p == PopToOpen(op_stack, expr_queue)
    IN /\ Yield(lt)
       /\ IF Accepts("CloseParen", last_token)
          THEN IF p.found
               THEN Continue(lt, p.stack, p.queue)
               ELSE Return([reason |-> "UnopenedParens", start |-> lt.start,
                            end |-> lt.end, expected |-> <<>>],
                           p.stack, p.queue)
          ELSE Return(make_err_for_token(last_token, lt.start, lt.end),
                      op_stack, expr_queue)

TokenException ==
    \E exc \in ExceptionIds :
        LET lt == Lex("Exception", exc)
            n == Len(expr_queue)
        IN /\ Yield(lt)
           /\ IF Accepts("Exception", last_token)
              THEN IF n = 0 \/ expr_queue[n].type # "Req"
                   THEN Panic
                   ELSE Continue(lt, op_stack,
                            [expr_queue EXCEPT ![n].exception = exc])
              ELSE Return(make_err_for_token(last_token, lt.start, lt.end),
                          op_stack, expr_queue)

\* let lt = tok?; with tok an Err of the lexer
LexError ==
    /\ pc = "parsing"
    /\ Len(toks) < MaxToks
    /\ toks' = Append(toks, Lex("Invalid", ""))
    /\ text_len' = Cursor + 1
    /\ Return([reason |-> "Lex", start |-> Cursor, end |-> Cursor + 1,
               expected |-> <<>>], op_stack, expr_queue)
    /\ NoEval

\* the terminating-token check taking WITH as a valid last token
ValidateTerminal_WithIsTerminal(last, len) ==
    IF last.kind \in {"SPDX", "LicenseRef", "Exception", "CloseParen", "Plus",
                      "With"}
    THEN NoErr
    ELSE IF last.kind = "None"
    THEN [reason |-> "Empty", start |-> 0, end |-> len, expected |-> <<>>]
    ELSE make_err_for_token(last, len, len)

\* the terminating-token check reporting the end of the last token instead of
\* the end of the text
ValidateTerminal_SpanAtLastToken(last, len) ==
    IF last.kind \in {"SPDX", "LicenseRef", "Exception", "CloseParen", "Plus"}
    THEN NoErr
    ELSE IF last.kind = "None"
    THEN [reason |-> "Empty", start |-> 0, end |-> len, expected |-> <<>>]
    ELSE make_err_for_token(last, Cursor - 1, Cursor - 1)

\* match last_token { ... } after the token loop: the error it returns, or
\* NoErr when the terminating token is valid
ValidateTerminal(last, len) ==
    IF last.kind \in {"SPDX", "LicenseRef", "Exception", "CloseParen", "Plus"}
    THEN NoErr
    ELSE IF last.kind = "None"
    THEN [reason |-> "Empty", start |-> 0, end |-> len, expected |-> <<>>]
    ELSE make_err_for_token(last, len, len)

\* the lexer is exhausted: validation of the terminating token, final drain
EndOfStream ==
    \E trail \in 0..MaxTrail :
        LET len == (IF toks = <<>> THEN 0 ELSE toks[Len(toks)].end) + trail
            v == ValidateTerminal(last_token, len)
            d == Drain(op_stack, expr_queue)
        IN /\ pc = "parsing"
           /\ text_len' = len
           /\ UNCHANGED toks
           /\ NoEval
           /\ IF v.reason # "None"
              THEN Return(v, op_stack, expr_queue)
              ELSE IF d.unclosed
              THEN Return([reason |-> "UnclosedParens", start |-> d.start,
                           end |-> d.end, expected |-> <<>>],
                          d.stack, d.queue)
              ELSE /\ pc' = "parsed"
                   /\ op_stack' = d.stack
                   /\ expr_queue' = d.queue
                   /\ UNCHANGED <<last_token, err>>

\* ------------------------------------------------- parse as a function
\* the tokens the lexer yields for the token texts kv, laid out as by Cursor
RECURSIVE LexAll(_)
LexAll(kv) ==
    IF kv = <<>> THEN <<>>
    ELSE LET before == LexAll(Pop(kv))
             at == IF before = <<>> THEN 0 ELSE Top(before).end + 1
         IN Append(before,
                   [kind |-> Top(kv).kind, val |-> Top(kv).val, start |-> at,
                    end |-> at + TokLen(Top(kv).kind, Top(kv).val)])

\* the locals of parse before the first token
ParseStart ==
    [status |-> "parsing", op_stack |-> <<>>, expr_queue |-> <<>>,
     last_token |-> NoToken, err |-> NoErr]

\* one pass of the body of the token loop over the token lt
token_arm(st, lt) ==
    LET n == Len(st.expr_queue)
        unexpected ==
            [st EXCEPT !.status = "failed",
                       !.err = make_err_for_token(st.last_token, lt.start, lt.end)]
        next(stack, queue) ==
            [st EXCEPT !.op_stack = stack, !.expr_queue = queue,
                       !.last_token = SomeToken(lt)]
    IN IF lt.kind = "Invalid"
       THEN [st EXCEPT !.status = "failed",
                       !.err = [reason |-> "Lex", start |-> lt.start,
                                end |-> lt.start + 1, expected |-> <<>>]]
       ELSE IF ~Accepts(lt.kind, st.last_token) THEN unexpected
       ELSE CASE lt.kind \in {"SPDX", "LicenseRef"} ->
                    next(st.op_stack, Append(st.expr_queue, ReqNode(lt)))
              [] lt.kind = "Plus" ->
                    IF n = 0 \/ st.expr_queue[n].type # "Req"
                          \/ st.expr_queue[n].license.kind # "SPDX"
                    THEN [st EXCEPT !.status = "panic"]
                    ELSE next(st.op_stack,
                              [st.expr_queue EXCEPT ![n].license.or_later = TRUE])
              [] lt.kind = "With" -> next(st.op_stack, st.expr_queue)
              [] lt.kind \in {"Or", "And"} ->
                    LET p == PopBeforePush(st.op_stack, st.expr_queue, lt.kind)
                    IN next(Append(p.stack, [op |-> lt.kind, start |-> lt.start,
                                             end |-> lt.end]),
                            p.queue)
              [] lt.kind = "OpenParen" ->
                    next(Append(st.op_stack, [op |-> "Open", start |-> lt.start,
                                              end |-> lt.end]),
                         st.expr_queue)
              [] lt.kind = "CloseParen" ->
                    LET p == PopToOpen(st.op_stack, st.expr_queue)
                    IN IF p.found THEN next(p.stack, p.queue)
                       ELSE [st EXCEPT !.status = "failed",
                                       !.op_stack = p.stack,
                                       !.expr_queue = p.queue,
                                       !.err = [reason |-> "UnopenedParens",
                                                start |-> lt.start,
                                                end |-> lt.end,
                                                expected |-> <<>>]]
              [] lt.kind = "Exception" ->
                    IF n = 0 \/ st.expr_queue[n].type # "Req"
                    THEN [st EXCEPT !.status = "panic"]
                    ELSE next(st.op_stack,
                              [st.expr_queue EXCEPT ![n].exception = lt.val])

\* the token loop over lts[1..n]: a pass that returns ends the loop
RECURSIVE token_loop(_, _)
token_loop(lts, n) ==
    IF n = 0 THEN ParseStart
    ELSE LET st == token_loop(lts, n - 1)
         IN IF st.status # "parsing" THEN st ELSE token_arm(st, lts[n])

\* Expression::parse on the text whose tokens are kv, followed by trail bytes
\* of whitespace
parse(kv, trail) ==
    LET lts == LexAll(kv)
        st == token_loop(lts, Len(lts))
        len == (IF lts = <<>> THEN 0 ELSE Top(lts).end) + trail
        v == ValidateTerminal(st.last_token, len)
        d == Drain(st.op_stack, st.expr_queue)
    IN IF st.status # "parsing" THEN st
       ELSE IF v.reason # "None" THEN [st EXCEPT !.status = "failed", !.err = v]
       ELSE IF d.unclosed
       THEN [st EXCEPT !.status = "failed", !.op_stack = d.stack,
                       !.expr_queue = d.queue,
                       !.err = [reason |-> "UnclosedParens", start |-> d.start,
                                end |-> d.end, expected |-> <<>>]]
       ELSE [st EXCEPT !.status = "parsed", !.op_stack = d.stack,
                       !.expr_queue = d.queue]

\* ExpressionReq with a derived PartialEq, which compares the span too
node_eq_ComparesSpan(a, b) == a = b

\* impl PartialEq for ExpressionReq, derived PartialEq of ExprNode
node_eq(a, b) ==
    /\ a.type = b.type
    /\ IF a.type = "Req"
       THEN a.license = b.license /\ a.exception = b.exception
       ELSE a.op = b.op

\* impl PartialEq for Expression
expression_eq(e, o) ==
    IF Len(e) # Len(o) THEN FALSE
    ELSE ~\E i \in 1..Len(e) : ~node_eq(e[i], o[i])

\* the caller supplies allow_func: its answer to each of its invocations
SupplyPredicate ==
    /\ pc = "parsed"
    /\ \E fn \in [1..Len(requirements(expr_queue)) -> BOOLEAN] : allow' = fn
    /\ pc' = "evaluating"
    /\ UNCHANGED <<toks, text_len, op_stack, expr_queue, last_token, err,
                   eval_result, ewf_result>>

Evaluate ==
    /\ pc = "evaluating"
    /\ ~eval_result.done
    /\ eval_result' = evaluate(expr_queue, allow)
    /\ UNCHANGED <<toks, text_len, op_stack, expr_queue, last_token, err, pc,
                   allow, ewf_result>>

EvaluateWithFailures ==
    /\ pc = "evaluating"
    /\ ~ewf_result.done
    /\ ewf_result' = evaluate_with_failures(expr_queue, allow)
    /\ UNCHANGED <<toks, text_len, op_stack, expr_queue, last_token, err, pc,
                   allow, eval_result>>

Next ==
    \/ TokenSPDX
    \/ TokenLicenseRef
    \/ TokenPlus
    \/ TokenWith
    \/ TokenOr
    \/ TokenAnd
    \/ TokenOpenParen
    \/ TokenCloseParen
    \/ TokenException
    \/ LexError
    \/ EndOfStream
    \/ SupplyPredicate
    \/ Evaluate
    \/ EvaluateWithFailures

Spec == Init /\ [][Next]_vars

\* ============================================================== properties
\* parse has returned Ok(Expression { expr: expr_queue, .. })
ParsedOk == pc \in {"parsed", "evaluating"}

Range(f) == {f[i] : i \in DOMAIN f}

\* the positions of the license-id and license-ref tokens of ts, in order
RECURSIVE AtomPositions(_)
AtomPositions(ts) ==
    IF ts = <<>> THEN <<>>
    ELSE LET rest == AtomPositions(Pop(ts))
         IN IF Top(ts).kind \in {"SPDX", "LicenseRef"}
            THEN Append(rest, Len(ts)) ELSE rest

\* number of tokens of one of the kinds among ts[lo..hi]
CountKind(ts, lo, hi, kinds) ==
    Cardinality({j \in lo..hi : ts[j].kind \in kinds})

\* the number of values on the stack after replaying expr[1..i] with push-one
\* per requirement node and pop-two/push-one per operator node; -1 when a pop
\* finds fewer than two values
RECURSIVE Replay(_, _)
Replay(expr, i) ==
    IF i = 0 THEN 0
    ELSE LET before == Replay(expr, i - 1)
         IN IF before = -1 THEN -1
            ELSE IF expr[i].type = "Req" THEN before + 1
            ELSE IF before < 2 THEN -1
            ELSE before - 1

\* C1: every Expression parse returns is well-formed RPN (the replay never
\* underflows and ends with exactly one value), and neither evaluate nor
\* evaluate_with_failures hits a failing unwrap on it.
C1_WellFormedRPN ==
    ParsedOk =>
        /\ Replay(expr_queue, Len(expr_queue)) = 1
        /\ \A i \in 1..Len(expr_queue) : expr_queue[i].type \in {"Req", "Op"}
        /\ eval_result.done => ~eval_result.panic
        /\ ewf_result.done => ~ewf_result.panic

\* an expression with parentheses and both operators was parsed and traversed
\* by both evaluators
C1_Witness ==
    /\ pc = "evaluating"
    /\ eval_result.done /\ ewf_result.done
    /\ CountKind(toks, 1, Len(toks), {"OpenParen"}) >= 1
    /\ CountKind(toks, 1, Len(toks), {"And"}) >= 1
    /\ CountKind(toks, 1, Len(toks), {"Or"}) >= 1
    /\ Len(expr_queue) = 5

\* nesting depth of position j relative to position lo
ParenDepth(ts, lo, j) ==
    CountKind(ts, lo, j - 1, {"OpenParen"}) - CountKind(ts, lo, j - 1, {"CloseParen"})

\* the truth value of the infix formula ts[lo..hi], read with AND binding
\* tighter than OR and parentheses overriding precedence; the k-th atom of ts
\* has the value fn[k]
RECURSIVE InfixValue(_, _, _, _)
InfixValue(ts, lo, hi, fn) ==
    LET topOr == {j \in lo..hi : ts[j].kind = "Or" /\ ParenDepth(ts, lo, j) = 0}
        topAnd == {j \in lo..hi : ts[j].kind = "And" /\ ParenDepth(ts, lo, j) = 0}
    IN IF topOr # {}
       THEN LET j == CHOOSE j \in topOr : \A k \in topOr : j <= k
            IN InfixValue(ts, lo, j - 1, fn) \/ InfixValue(ts, j + 1, hi, fn)
       ELSE IF topAnd # {}
       THEN LET j == CHOOSE j \in topAnd : \A k \in topAnd : j <= k
            IN InfixValue(ts, lo, j - 1, fn) /\ InfixValue(ts, j + 1, hi, fn)
       ELSE IF ts[lo].kind = "OpenParen"
       THEN InfixValue(ts, lo + 1, hi - 1, fn)
       ELSE fn[CountKind(ts, 1, lo, {"SPDX", "LicenseRef"})]

\* the license requirement the atom at position j of ts denotes: its license,
\* its optional + and its optional WITH exception
AtomRequirement(ts, j) ==
    LET plus == j + 1 <= Len(ts) /\ ts[j + 1].kind = "Plus"
        w == IF plus THEN j + 2 ELSE j + 1
    IN [license |-> [kind |-> IF ts[j].kind = "SPDX" THEN "SPDX" ELSE "Other",
                     id |-> ts[j].val, or_later |-> plus],
        exception |-> IF w + 1 <= Len(ts) /\ ts[w].kind = "With"
                      THEN ts[w + 1].val ELSE ""]

\* C2: evaluate returns the truth value of the infix formula (AND tighter than
\* OR, parentheses overriding), each atom taking the value the predicate gave
\* for the requirement that atom denotes.
C2_EvaluateIsInfixValue ==
    (pc = "evaluating" /\ eval_result.done) =>
        /\ ~eval_result.panic
        /\ eval_result.value = InfixValue(toks, 1, Len(toks), allow)
        /\ Len(eval_result.calls) = Len(AtomPositions(toks))
        /\ \A k \in 1..Len(eval_result.calls) :
              LET node == expr_queue[eval_result.calls[k]]
                  req == AtomRequirement(toks, AtomPositions(toks)[k])
              IN node.license = req.license /\ node.exception = req.exception

\* A AND B OR C style input (an AND left of an OR at the same level) whose
\* value depends on the precedence: true as (A AND B) OR C, false as
\* A AND (B OR C)
C2_Witness ==
    /\ pc = "evaluating" /\ eval_result.done
    /\ Len(toks) = 5
    /\ toks[2].kind = "And" /\ toks[4].kind = "Or"
    /\ allow = <<FALSE, FALSE, TRUE>>
    /\ eval_result.value = TRUE

\* the kinds of token the lexer can yield
TokenKinds ==
    {"SPDX", "LicenseRef", "Plus", "With", "And", "Or", "OpenParen",
     "CloseParen", "Exception"}

AtomTerminal == {"SPDX", "LicenseRef", "Plus", "Exception", "CloseParen"}

\* this step is one pass of the token loop over a token the lexer lexed
TokenStep ==
    /\ pc = "parsing"
    /\ Len(toks') = Len(toks) + 1
    /\ Top(toks').kind \in TokenKinds

\* this step is the code after the token loop
EndStep == pc = "parsing" /\ toks' = toks /\ pc' # "parsing"

\* the allowed-successor table as the specification prints it
SuccessorTable(prev) ==
    CASE prev \in {"None", "And", "Or", "OpenParen"} -> {"SPDX", "LicenseRef", "OpenParen"}
      [] prev = "SPDX" -> {"And", "Or", "With", "CloseParen", "Plus"}
      [] prev \in {"LicenseRef", "Plus"} -> {"And", "Or", "With", "CloseParen"}
      [] prev = "With" -> {"Exception"}
      [] prev = "Exception" -> {"And", "Or", "CloseParen"}
      [] prev = "CloseParen" -> {"And", "Or"}

\* the table with ')' also allowed after ')'
SuccessorTableNested(prev) ==
    IF prev = "CloseParen" THEN {"And", "Or", "CloseParen"}
    ELSE SuccessorTable(prev)

\* C3 as stated: a token is accepted (parse does not fail with
\* unexpected-token on it) exactly when its kind is in the printed
\* allowed-successor table for the previous accepted token.
C3_Original ==
    [][TokenStep =>
        ((~(pc' = "failed" /\ err'.reason = "Unexpected"))
            <=> Top(toks').kind \in SuccessorTable(last_token.kind))]_vars

\* C3 amended: a token is accepted exactly when its kind is in the
\* allowed-successor table in which ')' may also follow ')'.
C3_AcceptsBySuccessorTable ==
    [][TokenStep =>
        ((~(pc' = "failed" /\ err'.reason = "Unexpected"))
            <=> Top(toks').kind \in SuccessorTableNested(last_token.kind))]_vars

\* a ')' directly after a ')' has been accepted
C3_Witness ==
    /\ pc = "parsing"
    /\ Len(toks) >= 2
    /\ Top(toks).kind = "CloseParen"
    /\ Top(Pop(toks)).kind = "CloseParen"
    /\ last_token.kind = "CloseParen"

\* the name an expected set uses for a kind of token
ExpectedName(kind) ==
    CASE kind \in {"SPDX", "LicenseRef"} -> "<license>"
      [] kind = "Exception" -> "<exception>"
      [] kind = "And" -> "AND"
      [] kind = "Or" -> "OR"
      [] kind = "With" -> "WITH"
      [] kind = "Plus" -> "+"
      [] kind = "OpenParen" -> "("
      [] kind = "CloseParen" -> ")"

\* C4: an unexpected-token error at a token carries as its expected set
\* exactly the kinds of token parse would have accepted after the previous
\* accepted token, and as its span the span of the offending token.
C4_ExpectedIsAcceptedSet ==
    [][(TokenStep /\ pc' = "failed" /\ err'.reason = "Unexpected") =>
        /\ Range(err'.expected) =
              {ExpectedName(k) : k \in {kk \in TokenKinds : Accepts(kk, last_token)}}
        /\ err'.start = Top(toks').start
        /\ err'.end = Top(toks').end]_vars

\* the expected set the specification's table gives for the end of the
\* stream after a token that is not atom-terminal
ExpectedAtEnd(prev) ==
    IF prev = "With" THEN {"<exception>"} ELSE {"<license>", "("}

\* C5: at the end of the stream, no token at all gives empty-expression with
\* span 0..len(text); a last token AND, OR, '(' or WITH gives unexpected-token
\* with span len(text)..len(text) and the expected set of that token's
\* category, also when a '(' is still open.
C5_EndOfStreamErrors ==
    [][EndStep =>
        /\ toks = <<>> =>
              /\ pc' = "failed" /\ err'.reason = "Empty"
              /\ err'.start = 0 /\ err'.end = text_len'
        /\ (toks # <<>> /\ Top(toks).kind \in {"And", "Or", "OpenParen", "With"}) =>
              /\ pc' = "failed" /\ err'.reason = "Unexpected"
              /\ err'.start = text_len' /\ err'.end = text_len'
              /\ Range(err'.expected) = ExpectedAtEnd(Top(toks).kind)]_vars

\* the stream ended after an operator inside an open parenthesis, the text
\* having trailing whitespace, and unexpected-token was reported
C5_Witness ==
    /\ pc = "failed" /\ err.reason = "Unexpected"
    /\ toks # <<>> /\ Top(toks).kind \in {"And", "Or"}
    /\ last_token.kind = Top(toks).kind
    /\ \E i \in 1..Len(op_stack) : op_stack[i].op = "Open"
    /\ text_len > Top(toks).end
    /\ err.start = text_len

\* the index of the top-most open-paren marker of stack, 0 when it has none
TopMarker(stack) ==
    IF \E i \in 1..Len(stack) : stack[i].op = "Open"
    THEN CHOOSE i \in 1..Len(stack) :
            /\ stack[i].op = "Open"
            /\ \A k \in (i + 1)..Len(stack) : stack[k].op # "Open"
    ELSE 0

\* the operator nodes for stack[lo..hi], in pop order (top first)
PopOrder(stack, lo, hi) ==
    [k \in 1..(hi - lo + 1) |-> OpNode(stack[hi + 1 - k].op)]

\* C6: when the stream ends after an atom-terminal token, parse fails with
\* unclosed-parentheses at the span of the top-most open-paren marker left on
\* the operator stack if there is one; otherwise it emits the remaining
\* operators in pop order and succeeds.
C6_FinalDrain ==
    [][(EndStep /\ last_token.kind \in AtomTerminal) =>
        LET m == TopMarker(op_stack)
        IN IF m # 0
           THEN /\ pc' = "failed" /\ err'.reason = "UnclosedParens"
                /\ err'.start = op_stack[m].start /\ err'.end = op_stack[m].end
           ELSE /\ pc' = "parsed"
                /\ expr_queue' = expr_queue \o PopOrder(op_stack, 1, Len(op_stack))]_vars

\* unclosed-parentheses was reported with two '(' unmatched and an operator
\* above the inner one
C6_Witness ==
    /\ pc = "failed" /\ err.reason = "UnclosedParens"
    /\ CountKind(toks, 1, Len(toks), {"OpenParen"}) = 2
    /\ CountKind(toks, 1, Len(toks), {"CloseParen"}) = 0
    /\ CountKind(toks, 1, Len(toks), {"And", "Or"}) >= 1
    /\ \E j \in 2..Len(toks) :
          toks[j].kind = "OpenParen" /\ err.start = toks[j].start

\* C7: a ')' after an atom-terminal token pops and emits the operators above
\* the nearest open-paren marker, discards exactly that marker and continues
\* with previous-token = ')'; without a marker parse fails with
\* unopened-parentheses at the span of that ')'.
C7_CloseParen ==
    [][(TokenStep /\ Top(toks').kind = "CloseParen"
            /\ last_token.kind \in AtomTerminal) =>
        LET m == TopMarker(op_stack)
        IN IF m # 0
           THEN /\ pc' = "parsing"
                /\ last_token'.kind = "CloseParen"
                /\ op_stack' = SubSeq(op_stack, 1, m - 1)
                /\ expr_queue' = expr_queue \o PopOrder(op_stack, m + 1, Len(op_stack))
           ELSE /\ pc' = "failed" /\ err'.reason = "UnopenedParens"
                /\ err'.start = Top(toks').start /\ err'.end = Top(toks').end]_vars

\* a ')' closed the inner of two open parentheses, emitting the operator above
\* the inner marker and leaving the outer marker on the stack
C7_Witness ==
    /\ pc = "parsing" /\ last_token.kind = "CloseParen"
    /\ Top(toks).kind = "CloseParen"
    /\ Len(op_stack) = 1 /\ op_stack[1].op = "Open"
    /\ Len(expr_queue) = 3
    /\ expr_queue[3].type = "Op"

\* number of operator nodes op in expr
CountOp(expr, op) ==
    Cardinality({i \in 1..Len(expr) : expr[i].type = "Op" /\ expr[i].op = op})

\* C8: requirements() of a parsed Expression yields exactly one requirement
\* per license-id or license-ref token, in source order with strictly
\* increasing spans and no operator nodes, and the node sequence holds exactly
\* one operator node per AND token and per OR token.
C8_RequirementsAreAtoms ==
    ParsedOk =>
        LET reqs == requirements(expr_queue)
            atoms == AtomPositions(toks)
        IN /\ Len(reqs) = Len(atoms)
           /\ \A k \in 1..Len(reqs) :
                 /\ expr_queue[reqs[k]].type = "Req"
                 /\ expr_queue[reqs[k]].license.id = toks[atoms[k]].val
                 /\ expr_queue[reqs[k]].start = toks[atoms[k]].start
                 /\ expr_queue[reqs[k]].end = toks[atoms[k]].end
           /\ \A k \in 1..(Len(reqs) - 1) :
                 /\ expr_queue[reqs[k]].start < expr_queue[reqs[k + 1]].start
                 /\ expr_queue[reqs[k]].end < expr_queue[reqs[k + 1]].end
           /\ CountOp(expr_queue, "And") = CountKind(toks, 1, Len(toks), {"And"})
           /\ CountOp(expr_queue, "Or") = CountKind(toks, 1, Len(toks), {"Or"})
           /\ Len(expr_queue) = Len(atoms)
                 + CountKind(toks, 1, Len(toks), {"And", "Or"})

\* an expression of three different atoms joined by AND and OR was parsed
C8_Witness ==
    /\ pc = "parsed"
    /\ Len(requirements(expr_queue)) = 3
    /\ CountOp(expr_queue, "And") = 1 /\ CountOp(expr_queue, "Or") = 1
    /\ Cardinality({toks[j].val : j \in Range(AtomPositions(toks))}) = 3

\* the requirement nodes the predicate answered false for, among the first n
\* requirements of reqs, in order
RECURSIVE FalseRequirements(_, _, _)
FalseRequirements(reqs, fn, n) ==
    IF n = 0 THEN <<>>
    ELSE LET before == FalseRequirements(reqs, fn, n - 1)
         IN IF fn[n] THEN before ELSE Append(before, reqs[n])

\* C9: with the same predicate, evaluate_with_failures returns Ok exactly
\* when evaluate returns true, and otherwise Err with exactly the requirement
\* nodes the predicate returned false for, in traversal order, those under an
\* OR with a true sibling included.
C9_FailuresMatchEvaluate ==
    (pc = "evaluating" /\ eval_result.done /\ ewf_result.done) =>
        /\ ~ewf_result.panic
        /\ ewf_result.value = eval_result.value
        /\ ~ewf_result.value =>
              ewf_result.failures =
                 FalseRequirements(requirements(expr_queue), allow, Len(allow))

\* (A OR B) AND C with A true, B and C false: the result is false and B, the
\* false operand of an OR whose sibling was true, is in the failure list
C9_Witness ==
    /\ pc = "evaluating" /\ eval_result.done /\ ewf_result.done
    /\ Len(toks) = 7
    /\ toks[1].kind = "OpenParen" /\ toks[3].kind = "Or"
    /\ toks[5].kind = "CloseParen" /\ toks[6].kind = "And"
    /\ allow = <<TRUE, FALSE, FALSE>>
    /\ ~ewf_result.value
    /\ ewf_result.failures = <<2, 4>>

\* C10: on a parsed expression evaluate returns true with the always-true
\* predicate and false with the always-false predicate.
C10_ConstantPredicates ==
    (pc = "evaluating" /\ eval_result.done) =>
        /\ (\A k \in 1..Len(allow) : allow[k]) =>
              (~eval_result.panic /\ eval_result.value)
        /\ (\A k \in 1..Len(allow) : ~allow[k]) =>
              (~eval_result.panic /\ ~eval_result.value)

\* an expression with an OR and an AND was evaluated with the always-true
\* predicate
C10_Witness ==
    /\ pc = "evaluating" /\ eval_result.done
    /\ Len(allow) = 3
    /\ \A k \in 1..Len(allow) : allow[k]
    /\ CountOp(expr_queue, "Or") = 1 /\ CountOp(expr_queue, "And") = 1
    /\ eval_result.value

\* C11: one traversal by evaluate or by evaluate_with_failures invokes the
\* predicate exactly once for every requirement node, in postfix (= source)
\* order, also for a requirement whose enclosing AND/OR an earlier operand
\* already decides.
C11_PredicateCalledOncePerRequirement ==
    /\ eval_result.done =>
          /\ eval_result.calls = requirements(expr_queue)
          /\ \A k \in 1..Len(eval_result.calls) :
                expr_queue[eval_result.calls[k]].start
                    = toks[AtomPositions(toks)[k]].start
    /\ ewf_result.done =>
          /\ ewf_result.calls = requirements(expr_queue)
          /\ \A k \in 1..Len(ewf_result.calls) :
                expr_queue[ewf_result.calls[k]].start
                    = toks[AtomPositions(toks)[k]].start

\* A OR B AND C with A true: the OR is decided by its first operand, and the
\* predicate was still invoked on all three requirements by both traversals
C11_Witness ==
    /\ pc = "evaluating" /\ eval_result.done /\ ewf_result.done
    /\ Len(toks) = 5
    /\ toks[2].kind = "Or" /\ toks[4].kind = "And"
    /\ allow = <<TRUE, FALSE, FALSE>>
    /\ eval_result.calls = <<1, 2, 3>>
    /\ ewf_result.calls = <<1, 2, 3>>

\* the token texts of the lexed tokens ts
TokenTexts(ts) == [i \in 1..Len(ts) |-> [kind |-> ts[i].kind, val |-> ts[i].val]]

Text(kind) == [kind |-> kind, val |-> ""]

\* the position of the last token of the atom at position j of ts: the
\* license with its optional + and WITH exception
AtomEnd(ts, j) ==
    LET p == IF j + 1 <= Len(ts) /\ ts[j + 1].kind = "Plus" THEN j + 1 ELSE j
    IN IF p + 2 <= Len(ts) /\ ts[p + 1].kind = "With" THEN p + 2 ELSE p

\* kv with kv[lo..hi] put in parentheses
Wrapped(kv, lo, hi) ==
    SubSeq(kv, 1, lo - 1) \o <<Text("OpenParen")>> \o SubSeq(kv, lo, hi)
        \o <<Text("CloseParen")>> \o SubSeq(kv, hi + 1, Len(kv))

\* kv with the texts ins inserted after position at
Inserted(kv, at, ins) == SubSeq(kv, 1, at) \o ins \o SubSeq(kv, at + 1, Len(kv))

\* kv with the atoms at jlo..jhi and klo..khi (jhi < klo) exchanged
Exchanged(kv, jlo, jhi, klo, khi) ==
    SubSeq(kv, 1, jlo - 1) \o SubSeq(kv, klo, khi) \o SubSeq(kv, jhi + 1, klo - 1)
        \o SubSeq(kv, jlo, jhi) \o SubSeq(kv, khi + 1, Len(kv))

\* ( X op Y ) op Z with one-token atoms regrouped as X op ( Y op Z )
IsLeftGrouped(kv) ==
    /\ Len(kv) = 7
    /\ kv[1].kind = "OpenParen" /\ kv[5].kind = "CloseParen"
    /\ kv[3].kind \in {"And", "Or"} /\ kv[6].kind \in {"And", "Or"}
    /\ \A j \in {2, 4, 7} : kv[j].kind \in {"SPDX", "LicenseRef"}

RightGrouped(kv) == <<kv[2], kv[3], kv[1], kv[4], kv[6], kv[7], kv[5]>>

\* C12: Expression equality compares the postfix node sequences only,
\* ignoring spans and text: redundant parentheses around one atom or around
\* the whole expression give an equal Expression; a WITH exception added to
\* an atom, two different operands exchanged, or the operators regrouped give
\* an unequal one.
C12_StructuralEquality ==
    pc = "parsed" =>
        LET kv == TokenTexts(toks)
            atoms == Range(AtomPositions(toks))
            same(other) ==
                LET r == parse(other, 0)
                IN r.status = "parsed" /\ expression_eq(expr_queue, r.expr_queue)
                      /\ expression_eq(r.expr_queue, expr_queue)
            differs(other) ==
                LET r == parse(other, 0)
                IN r.status = "parsed" /\ ~expression_eq(expr_queue, r.expr_queue)
                      /\ ~expression_eq(r.expr_queue, expr_queue)
        IN /\ expression_eq(expr_queue, expr_queue)
           /\ same(Wrapped(kv, 1, Len(kv)))
           /\ \A j \in atoms : same(Wrapped(kv, j, AtomEnd(toks, j)))
           /\ \A j \in atoms :
                 AtomRequirement(toks, j).exception = "" =>
                    \A exc \in ExceptionIds :
                        differs(Inserted(kv, AtomEnd(toks, j),
                                    <<Text("With"), [kind |-> "Exception", val |-> exc]>>))
           /\ \A j, k \in atoms :
                 (j < k /\ AtomRequirement(toks, j) # AtomRequirement(toks, k)) =>
                    differs(Exchanged(kv, j, AtomEnd(toks, j), k, AtomEnd(toks, k)))
           /\ IsLeftGrouped(kv) => differs(RightGrouped(kv))

\* MIT OR 0BSD was parsed and equals the parse of ( MIT OR ( 0BSD ) ), whose
\* requirement spans differ
C12_Witness ==
    /\ pc = "parsed"
    /\ TokenTexts(toks) = <<[kind |-> "SPDX", val |-> "MIT"], Text("Or"),
                            [kind |-> "SPDX", val |-> "0BSD"]>>
    /\ LET r == parse(<<Text("OpenParen"), [kind |-> "SPDX", val |-> "MIT"],
                        Text("Or"), Text("OpenParen"),
                        [kind |-> "SPDX", val |-> "0BSD"],
                        Text("CloseParen"), Text("CloseParen")>>, 0)
       IN /\ r.status = "parsed"
          /\ expression_eq(expr_queue, r.expr_queue)
          /\ r.expr_queue # expr_queue

\* texts of a token that follows the token of an error: an operator, a
\* parenthesis and a lexical error
FollowingTexts == {Text("And"), Text("CloseParen"), Text("Invalid")}

\* token j of ts is lexed and the grammar takes it: its kind may follow token
\* j - 1 and, for a ')', a '(' is open
TakenByGrammar(ts, j) ==
    /\ ts[j].kind \in TokenKinds
    /\ Accepts(ts[j].kind, IF j = 1 THEN NoToken ELSE SomeToken(ts[j - 1]))
    /\ ts[j].kind = "CloseParen" => ParenDepth(ts, 1, j) > 0

\* C13: parse returns an Expression or exactly one error, never both, and
\* returns at the first offending token in stream order: every token before
\* the token of the error (a lexical error included) was taken by the grammar,
\* nothing is consumed after an error, and no token after it changes the
\* result.
C13_AllOrNothing ==
    [][/\ pc' \in {"parsed", "evaluating"} => err' = NoErr
       /\ pc' = "failed" =>
             /\ err'.reason # "None"
             /\ ~eval_result'.done /\ ~ewf_result'.done
             /\ \A j \in 1..(Len(toks') - 1) : TakenByGrammar(toks', j)
       /\ (TokenStep /\ pc' = "parsing") => TakenByGrammar(toks', Len(toks'))
       /\ (pc' = "failed" /\ Len(toks') = Len(toks) + 1) =>
             /\ ~TakenByGrammar(toks', Len(toks'))
             /\ err'.reason = "Lex" <=> Top(toks').kind = "Invalid"
             /\ \A x \in FollowingTexts :
                   LET r == parse(Append(TokenTexts(toks'), x), 0)
                   IN r.status = "failed" /\ r.err = err'
                         /\ r.expr_queue = expr_queue'
       /\ pc = "failed" => vars' = vars]_vars

\* a lexical error was returned for the fourth token, the three tokens before
\* it having been taken
C13_Witness ==
    /\ pc = "failed" /\ err.reason = "Lex"
    /\ Len(toks) = 4 /\ toks[4].kind = "Invalid"
    /\ Len(expr_queue) = 2
    /\ err.start = toks[4].start

\* C14: a '+' is accepted only directly after a license-id and sets or_later
\* on the requirement made from that token and on no other node; an
\* exception-id is accepted only directly after WITH and sets the exception of
\* the most recently appended requirement node and of no other node; '+',
\* WITH and exception-id append no node and leave the operator stack alone;
\* a '+' after a license-ref fails with unexpected-token.
C14_SuffixModifiers ==
    [][(TokenStep /\ Top(toks').kind \in {"Plus", "With", "Exception"}) =>
        LET lt == Top(toks')
            n == Len(expr_queue)
            unexpected == pc' = "failed" /\ err'.reason = "Unexpected"
        IN /\ op_stack' = op_stack
           /\ Len(expr_queue') = n
           /\ pc' = "parsing" \/ (unexpected /\ expr_queue' = expr_queue)
           /\ lt.kind = "Plus" =>
                 /\ pc' = "parsing" <=> last_token.kind = "SPDX"
                 /\ last_token.kind = "LicenseRef" => unexpected
                 /\ pc' = "parsing" =>
                       /\ n > 0
                       /\ expr_queue[n].type = "Req"
                       /\ expr_queue[n].start = toks[Len(toks)].start
                       /\ expr_queue[n].license.id = toks[Len(toks)].val
                       /\ ~expr_queue[n].license.or_later
                       /\ expr_queue'[n].license.or_later
                       /\ expr_queue'[n].license.id = expr_queue[n].license.id
                       /\ expr_queue'[n].exception = expr_queue[n].exception
                       /\ \A i \in 1..(n - 1) : expr_queue'[i] = expr_queue[i]
           /\ lt.kind = "With" =>
                 /\ pc' = "parsing" <=>
                       last_token.kind \in {"SPDX", "LicenseRef", "Plus"}
                 /\ expr_queue' = expr_queue
           /\ lt.kind = "Exception" =>
                 /\ pc' = "parsing" <=> last_token.kind = "With"
                 /\ pc' = "parsing" =>
                       /\ n > 0
                       /\ expr_queue[n].type = "Req"
                       /\ expr_queue[n].exception = ""
                       /\ expr_queue'[n].exception = lt.val
                       /\ expr_queue'[n].license = expr_queue[n].license
                       /\ expr_queue'[n].start = expr_queue[n].start
                       /\ \A i \in 1..(n - 1) : expr_queue'[i] = expr_queue[i]]_vars

\* A op B+ WITH exception: the second requirement carries or_later and the
\* exception, the first neither
C14_Witness ==
    /\ pc = "parsing" /\ last_token.kind = "Exception"
    /\ Len(toks) = 6 /\ toks[4].kind = "Plus"
    /\ Len(expr_queue) = 2
    /\ expr_queue[2].license.or_later /\ expr_queue[2].exception # ""
    /\ ~expr_queue[1].license.or_later /\ expr_queue[1].exception = ""
    /\ Len(op_stack) = 1

\* precedence of the operators: AND binds tighter than OR
Precedence(op) == IF op = "And" THEN 2 ELSE 1

\* the number of operators at the top of stack, above any open-paren marker,
\* whose precedence is greater than or equal to that of new_op
RECURSIVE PoppedBefore(_, _)
PoppedBefore(stack, new_op) ==
    IF stack = <<>> THEN 0
    ELSE IF Top(stack).op = "Open" THEN 0
    ELSE IF Precedence(Top(stack).op) >= Precedence(new_op)
         THEN 1 + PoppedBefore(Pop(stack), new_op)
         ELSE 0

\* C16: an accepted AND or OR first pops and emits the operators on top of
\* the operator stack whose precedence is greater than or equal to its own,
\* stopping at an open-paren marker or an empty stack, and is then pushed, so
\* that A AND B AND C is emitted as A B AND C AND.
C16_PopsGreaterOrEqual ==
    [][(TokenStep /\ Top(toks').kind \in {"And", "Or"} /\ pc' = "parsing") =>
        LET lt == Top(toks')
            k == PoppedBefore(op_stack, lt.kind)
            n == Len(op_stack)
        IN /\ expr_queue' = expr_queue \o PopOrder(op_stack, n - k + 1, n)
           /\ op_stack' = Append(SubSeq(op_stack, 1, n - k),
                                 [op |-> lt.kind, start |-> lt.start,
                                  end |-> lt.end])]_vars

\* ------------------------------------------- parse applied to whole texts
\* longest token sequence of a whole text handed to parse
MaxTextToks == 5

\* one text for every kind of token
KindTexts ==
    {[kind |-> "SPDX", val |-> "MIT"], [kind |-> "LicenseRef", val |-> "LicenseRef-x"],
     [kind |-> "Exception", val |-> "LLVM-exception"], Text("Plus"), Text("With"),
     Text("And"), Text("Or"), Text("OpenParen"), Text("CloseParen")}

\* a text without lexical errors is given; nothing has been parsed
InitText ==
    /\ \E n \in 0..MaxTextToks : \E kv \in [1..n -> KindTexts] : toks = LexAll(kv)
    /\ text_len = 0
    /\ op_stack = <<>>
    /\ expr_queue = <<>>
    /\ last_token = NoToken
    /\ pc = "text"
    /\ err = NoErr
    /\ allow = <<>>
    /\ eval_result = NotCalled
    /\ ewf_result = NotCalled

\* Expression::parse on the whole text, which ends with its last token
ParseText ==
    LET r == parse(TokenTexts(toks), 0)
    IN /\ pc = "text"
       /\ pc' = r.status
       /\ op_stack' = r.op_stack
       /\ expr_queue' = r.expr_queue
       /\ last_token' = r.last_token
       /\ err' = r.err
       /\ text_len' = IF toks = <<>> THEN 0 ELSE Top(toks).end
       /\ UNCHANGED <<toks, allow, eval_result, ewf_result>>

NextText == ParseText

SpecText == InitText /\ [][NextText]_vars

\* ts[lo..hi] is an atom: license-id ['+'] [WITH exception-id] or
\* license-ref [WITH exception-id]
IsAtom(ts, lo, hi) ==
    LET modifiers == [i \in 1..(hi - lo) |-> ts[lo + i].kind]
    IN /\ lo <= hi
       /\ \/ /\ ts[lo].kind = "SPDX"
             /\ modifiers \in {<<>>, <<"Plus">>, <<"With", "Exception">>,
                               <<"Plus", "With", "Exception">>}
          \/ /\ ts[lo].kind = "LicenseRef"
             /\ modifiers \in {<<>>, <<"With", "Exception">>}

\* ts[lo..hi] is derivable from E ::= atom | '(' E ')' | E AND E | E OR E
RECURSIVE IsExpression(_, _, _)
IsExpression(ts, lo, hi) ==
    /\ lo <= hi
    /\ \/ IsAtom(ts, lo, hi)
       \/ /\ ts[lo].kind = "OpenParen" /\ ts[hi].kind = "CloseParen"
          /\ IsExpression(ts, lo + 1, hi - 1)
       \/ \E j \in (lo + 1)..(hi - 1) :
             /\ ts[j].kind \in {"And", "Or"}
             /\ IsExpression(ts, lo, j - 1)
             /\ IsExpression(ts, j + 1, hi)

\* C17: on a text without lexical errors parse returns Ok exactly when the
\* token sequence is derivable from E ::= atom | '(' E ')' | E AND E | E OR E;
\* an accepted sequence is non-empty, has balanced parentheses and no '()'.
C17_AcceptsExactlyTheGrammar ==
    pc # "text" =>
        /\ pc \in {"parsed", "failed"}
        /\ pc = "parsed" <=> IsExpression(toks, 1, Len(toks))
        /\ pc = "parsed" =>
              /\ toks # <<>>
              /\ ParenDepth(toks, 1, Len(toks) + 1) = 0
              /\ \A j \in 1..Len(toks) :
                    /\ ParenDepth(toks, 1, j + 1) >= 0
                    /\ ~(j < Len(toks) /\ toks[j].kind = "OpenParen"
                            /\ toks[j + 1].kind = "CloseParen")

\* a doubly parenthesised atom was accepted
C17_Witness ==
    /\ pc = "parsed"
    /\ Len(toks) = 5
    /\ toks[1].kind = "OpenParen" /\ toks[2].kind = "OpenParen"
    /\ toks[4].kind = "CloseParen" /\ toks[5].kind = "CloseParen"

\* C18: when evaluate_with_failures returns Err on a parsed Expression the
\* failure list is not empty, and when the predicate returned false for no
\* requirement the result is Ok.
C18_ErrHasFailures ==
    (pc = "evaluating" /\ ewf_result.done) =>
        /\ ~ewf_result.panic
        /\ ~ewf_result.value =>
              /\ ewf_result.failures # <<>>
              /\ \E k \in 1..Len(allow) : ~allow[k]
        /\ (\A k \in 1..Len(allow) : allow[k]) => ewf_result.value

\* A AND B with A allowed and B not: Err with B alone
C18_Witness ==
    /\ pc = "evaluating" /\ ewf_result.done
    /\ Len(toks) = 3 /\ toks[2].kind = "And"
    /\ allow = <<TRUE, FALSE>>
    /\ ~ewf_result.value
    /\ ewf_result.failures = <<2>>

\* C19: no unreachable!() and no failing unwrap() of parse is reached: when a
\* '+' can be handled (previous token license-id) the last element of the
\* output queue is a requirement with an SPDX license, when an exception-id
\* can be handled (previous token WITH) it is a requirement node, and
\* apply_op is only ever given AND or OR.
C19_NoPanicInParse ==
    /\ pc # "panic"
    /\ \A i \in 1..Len(expr_queue) : expr_queue[i].type # "Unreachable"
    /\ \A i \in 1..Len(op_stack) : op_stack[i].op \in {"And", "Or", "Open"}
    /\ (pc = "parsing" /\ last_token.kind = "SPDX") =>
          /\ expr_queue # <<>>
          /\ Top(expr_queue).type = "Req"
          /\ Top(expr_queue).license.kind = "SPDX"
    /\ (pc = "parsing" /\ last_token.kind = "With") =>
          /\ expr_queue # <<>>
          /\ Top(expr_queue).type = "Req"

\* an exception-id was handled with an operator node already in the output
\* queue, below the requirement it was attached to
C19_Witness ==
    /\ pc = "parsing" /\ last_token.kind = "Exception"
    /\ \E i \in 1..Len(expr_queue) : expr_queue[i].type = "Op"
    /\ Top(expr_queue).type = "Req"
    /\ Top(expr_queue).exception # ""

\* C20: in every parser state, within one parenthesis level of the operator
\* stack no OR sits above an AND: between an AND and an OR higher up the
\* stack there is an open-paren marker.
C20_NoOrAboveAnd ==
    \A i, j \in 1..Len(op_stack) :
        (i < j /\ op_stack[i].op = "And" /\ op_stack[j].op = "Or") =>
            \E k \in (i + 1)..(j - 1) : op_stack[k].op = "Open"

\* an OR was pushed where an AND had been on top: the AND was popped, and the
\* stack holds OR, AND again after the next AND
C20_Witness ==
    /\ pc = "parsing"
    /\ Len(toks) = 6
    /\ toks[2].kind = "And" /\ toks[4].kind = "Or" /\ toks[6].kind = "And"
    /\ Len(op_stack) = 2
    /\ op_stack[1].op = "Or" /\ op_stack[2].op = "And"
====
